---- MODULE Spec2Model ----
(***************************************************************************)
(* Linear -> LangSmith webhook bridge: the authentication decorator, the   *)
(* webhook handler and the agent dispatcher of src/main.py, with the       *)
(* configuration of src/config.py and the formatter of src/utils.py.       *)
(*                                                                         *)
(* Python values are encoded as follows.  None is the string NoneVal.  An  *)
(* Optional[List[str]] is <<>> for None and <<list>> for a list.  Raw       *)
(* request bodies are strings; what request.get_json() makes of each is    *)
(* the table get_json.  hmac.new(key, msg, sha256).hexdigest() is an        *)
(* injective string function of (key, msg): no collisions are modelled.    *)
(*                                                                         *)
(* Each delivery is handled by its own request thread; the handlers share  *)
(* only the configuration, which is read-only after start-up.  Spec takes  *)
(* the deliveries one at a time, with every request, parse outcome and     *)
(* runtime behaviour of the sets below.  The Linear-Delivery header, used   *)
(* for logging and echoed as webhook_id, is left out.                      *)
(***************************************************************************)
EXTENDS Integers, Sequences, FiniteSets, TLC

\* ------------------------------------------------------------------ bounds

\* Number of delivery slots (request-handling threads of the server).
NumDeliveries == 2
\* Longest stream of events the agent runtime yields for one run.
MaxStreamLen == 3
\* The same, where the deliveries are handled concurrently.
MaxConcurrentStreamLen == 1

DeliveryIds == 1..NumDeliveries

\* ------------------------------------------------------------------ values

NoneVal == "<None>"

\* Python truthiness of an Optional[str]: None and "" are falsy.
Truthy(s) == s # NoneVal /\ s # ""

\* Values the environment can give WEBHOOK_SECRET_TOKEN (os.getenv).
TokenEnvs == {NoneVal, "tok"}
\* Values the environment can give LINEAR_SIGNING_SECRET (os.getenv): unset,
\* set to the empty string, set to a secret.
SecretEnvs == {NoneVal, "", "sec"}
\* Values the environment can give LINEAR_EVENT_FILTER: unset, or a string
\* given as its pieces, each piece a "," or a comma-free run of characters.
FilterEnvs ==
    { <<>>,
      << <<>> >>,
      << <<"Issue", ",", "Comment">> >> }

\* str.split(',') on a string given as pieces: the comma-free runs between
\* the commas, the empty runs included.
RECURSIVE SplitComma(_, _, _)
SplitComma(pieces, cur, acc) ==
    IF pieces = <<>> THEN Append(acc, cur)
    ELSE IF Head(pieces) = ","
         THEN SplitComma(Tail(pieces), "", Append(acc, cur))
         ELSE SplitComma(Tail(pieces), cur \o Head(pieces), acc)

\* Config.LINEAR_EVENT_FILTER: the split list when the variable is set and
\* non-empty, else None.
EventFilterOf(env) ==
    IF env # <<>> /\ env[1] # <<>>
    THEN << SplitComma(env[1], "", <<>>) >>
    ELSE <<>>

Range(s) == { s[i] : i \in 1..Len(s) }

\* ------------------------------------------------------------------ requests

\* The ?token= query parameter: absent, the configured one, another one.
QueryTokens == {NoneVal, "tok", "bad"}

BodyUnparseable == "not json"
BodyEmpty == ""
BodyNull == "null"
BodyEmptyObject == "{}"
BodyList == "[1]"
BodyIssue == "{\"action\":\"create\",\"type\":\"Issue\",\"data\":{\"id\":\"i1\",\"title\":\"Fix bug\",\"identifier\":\"ENG-1\"}}"
BodyIssueLower == "{\"type\":\"issue\",\"data\":{\"assignee\":null}}"
BodyComment == "{\"action\":\"create\",\"type\":\"Comment\"}"
BodyNoType == "{\"action\":\"update\"}"

RawBodies ==
    { BodyUnparseable, BodyEmpty, BodyNull, BodyEmptyObject, BodyList,
      BodyIssue, BodyIssueLower, BodyComment, BodyNoType }

\* hmac.new(secret, payload, sha256).hexdigest()
hmac_hex(secret, payload) == "hmac(" \o secret \o "|" \o payload \o ")"

NonAsciiSignature == "sig-non-ascii"

\* The Linear-Signature header values a delivery with this body may carry:
\* absent, empty, not ASCII, the digest of this body under the secret, or
\* the digest of another body under the secret (a body changed after
\* signing).
SignatureHeaders(body) ==
    { NoneVal, "", NonAsciiSignature,
      hmac_hex("sec", body), hmac_hex("sec", BodyComment) }

\* ------------------------------------------------------------------ payloads

\* A key that a mapping does not have, and a key whose value is JSON null.
Missing == "<missing>"
Null == "<null>"

\* The "data" object of a payload, flattened.  shape is "mapping" for a JSON
\* object and "other" for any other JSON value.  A nested object X (state,
\* assignee, team, user, issue, lead) is Missing, Null or "obj", and X_name
\* is the "name" key inside it.  repr is Python's str() of the value.
DataEmpty ==
    [ shape |-> "mapping", repr |-> "{}",
      id |-> Missing, title |-> Missing, description |-> Missing,
      state |-> Missing, state_name |-> Missing, priority |-> Missing,
      assignee |-> Missing, assignee_name |-> Missing,
      team |-> Missing, team_name |-> Missing,
      identifier |-> Missing, url |-> Missing,
      body |-> Missing, user |-> Missing, user_name |-> Missing,
      issue |-> Missing, issue_title |-> Missing, issue_identifier |-> Missing,
      name |-> Missing, lead |-> Missing, lead_name |-> Missing ]

DataIssue ==
    [ DataEmpty EXCEPT
        !.repr = "{'id': 'i1', 'title': 'Fix bug', 'identifier': 'ENG-1'}",
        !.id = "i1", !.title = "Fix bug", !.identifier = "ENG-1" ]

DataNullAssignee ==
    [ DataEmpty EXCEPT !.repr = "{'assignee': None}", !.assignee = Null ]

DataAssigned ==
    [ DataIssue EXCEPT
        !.repr = "{'id': 'i1', 'title': 'Fix bug', 'assignee': {'name': 'Ada'}}",
        !.identifier = Missing,
        !.assignee = "obj", !.assignee_name = "Ada" ]

DataAssigneeNoName ==
    [ DataEmpty EXCEPT
        !.repr = "{'id': 'i2', 'assignee': {}}",
        !.id = "i2", !.assignee = "obj" ]

DataNullState ==
    [ DataEmpty EXCEPT
        !.repr = "{'title': 'Fix bug', 'state': None}",
        !.title = "Fix bug", !.state = Null ]

DataComment ==
    [ DataEmpty EXCEPT
        !.repr = "{'id': 'c1', 'body': 'LGTM', 'user': {'name': 'Bob'}, 'issue': {}}",
        !.id = "c1", !.body = "LGTM", !.user = "obj", !.user_name = "Bob",
        !.issue = "obj" ]

DataNullUser ==
    [ DataEmpty EXCEPT
        !.repr = "{'body': 'LGTM', 'user': None}",
        !.body = "LGTM", !.user = Null ]

DataProject ==
    [ DataEmpty EXCEPT
        !.repr = "{'id': 'p1', 'name': 'Roadmap', 'lead': {'name': 'Eve'}}",
        !.id = "p1", !.name = "Roadmap", !.lead = "obj", !.lead_name = "Eve" ]

DataNullLead ==
    [ DataEmpty EXCEPT
        !.repr = "{'name': 'Roadmap', 'lead': None}",
        !.name = "Roadmap", !.lead = Null ]

\* Event data that is no mapping: a JSON list, JSON null.
DataList == [ DataEmpty EXCEPT !.shape = "other", !.repr = "[1]" ]
DataNone == [ DataEmpty EXCEPT !.shape = "other", !.repr = "None" ]

\* The payload has no "data" key.
DataMissing == [ DataEmpty EXCEPT !.shape = "missing" ]

\* A parsed payload: shape is "none" (JSON null), "empty" (a falsy value
\* such as {}), "other" (a truthy value that is no mapping) or "mapping";
\* type is the payload's "type" key, Missing when the key is absent, and
\* data its "data" key, DataMissing when the key is absent.
Payload(shape, type, data) == [shape |-> shape, type |-> type, data |-> data]

\* What request.get_json() does with a raw body: the outcomes it can have.
\* raises is NoneVal when it returns payload.  Flask is not part of the
\* repository: for a body that is no JSON it may return None (silent mode),
\* raise json.JSONDecodeError or raise another exception (BadRequest); the
\* handler has a branch for each.
Returned(payload) == [raises |-> NoneVal, payload |-> payload]
Raised(exc) == [raises |-> exc, payload |-> Payload("none", Missing, DataEmpty)]

get_json(raw) ==
    CASE raw \in {BodyUnparseable, BodyEmpty} ->
            { Returned(Payload("none", Missing, DataEmpty)),
              Raised("JSONDecodeError"),
              Raised("BadRequest") }
      [] raw = BodyNull -> { Returned(Payload("none", Missing, DataEmpty)) }
      [] raw = BodyEmptyObject -> { Returned(Payload("empty", Missing, DataEmpty)) }
      [] raw = BodyList -> { Returned(Payload("other", Missing, DataEmpty)) }
      [] raw = BodyIssue -> { Returned(Payload("mapping", "Issue", DataIssue)) }
      [] raw = BodyIssueLower -> { Returned(Payload("mapping", "issue", DataNullAssignee)) }
      [] raw = BodyComment -> { Returned(Payload("mapping", "Comment", DataMissing)) }
      [] raw = BodyNoType -> { Returned(Payload("mapping", Missing, DataMissing)) }

\* dict.get(key, default) on a flattened mapping.
Get(value, default) == IF value = Missing THEN default ELSE value

\* str() of a value inside an f-string: JSON null prints as None.
Str(value) == IF value = Null THEN "None" ELSE value

\* data.get(X, {}).get('name', default): raises AttributeError when X is
\* null, which NestedRaises tells.
NestedRaises(obj) == obj = Null
NestedGet(obj, name, default) ==
    IF obj = Missing THEN default ELSE Str(Get(name, default))

\* ------------------------------------------------------------------ formatter

\* The templates of src/utils.py, without the emoji that opens each.

format_issue_event(data) ==
    "Linear Issue Updated\n\n**Issue:** " \o Str(Get(data.identifier, ""))
        \o " - " \o Str(Get(data.title, "Untitled"))
        \o "\n**Team:** " \o NestedGet(data.team, data.team_name, "Unknown team")
        \o "\n**Status:** " \o NestedGet(data.state, data.state_name, "Unknown")
        \o "\n**Priority:** " \o Str(Get(data.priority, "None"))
        \o "\n**Assignee:** "
        \o NestedGet(data.assignee, data.assignee_name, "Unassigned")
        \o "\n\n**Description:**\n" \o Str(Get(data.description, "No description"))
        \o "\n\n**Link:** " \o Str(Get(data.url, "")) \o "\n"

format_comment_event(data) ==
    "New Comment on Linear Issue\n\n**Issue:** "
        \o NestedGet(data.issue, data.issue_identifier, "")
        \o " - " \o NestedGet(data.issue, data.issue_title, "Unknown issue")
        \o "\n**Author:** " \o NestedGet(data.user, data.user_name, "Unknown user")
        \o "\n\n**Comment:**\n" \o Str(Get(data.body, "No content"))
        \o "\n\n**Link:** " \o Str(Get(data.url, "")) \o "\n"

format_project_event(data) ==
    "Linear Project Updated\n\n**Project:** "
        \o Str(Get(data.name, "Untitled project"))
        \o "\n**Lead:** " \o NestedGet(data.lead, data.lead_name, "No lead")
        \o "\n**State:** " \o Str(Get(data.state, "Unknown"))
        \o "\n\n**Description:**\n" \o Str(Get(data.description, "No description"))
        \o "\n\n**Link:** " \o Str(Get(data.url, "")) \o "\n"

\* The try block of format_linear_event raises: event_data is no mapping,
\* or the template of the kind dereferences a null nested object.
FormatRaises(event_type, data) ==
    \/ data.shape # "mapping"
    \/ event_type = "Issue"
         /\ (NestedRaises(data.state) \/ NestedRaises(data.assignee)
                \/ NestedRaises(data.team))
    \/ event_type = "Comment"
         /\ (NestedRaises(data.user) \/ NestedRaises(data.issue))
    \/ event_type = "Project" /\ NestedRaises(data.lead)

\* Mutant: no try/except, the exception of the extraction leaves the
\* formatter.
format_linear_event_unguarded(event_type, data) ==
    IF FormatRaises(event_type, data)
    THEN "AttributeError"
    ELSE CASE event_type = "Issue" -> format_issue_event(data)
           [] event_type = "Comment" -> format_comment_event(data)
           [] event_type = "Project" -> format_project_event(data)
           [] OTHER ->
                "New " \o event_type \o " event (ID: "
                    \o Str(Get(data.id, "unknown")) \o ")\n\nEvent data: "
                    \o data.repr

\* Mutant: the event kind is dispatched without regard to case.
format_linear_event_ignore_case(event_type, data) ==
    IF FormatRaises(event_type, data)
    THEN "Linear " \o event_type \o " event received with data: " \o data.repr
    ELSE CASE event_type \in {"Issue", "issue"} -> format_issue_event(data)
           [] event_type = "Comment" -> format_comment_event(data)
           [] event_type = "Project" -> format_project_event(data)
           [] OTHER ->
                "New " \o event_type \o " event (ID: "
                    \o Str(Get(data.id, "unknown")) \o ")\n\nEvent data: "
                    \o data.repr

format_linear_event(event_type, data) ==
    IF FormatRaises(event_type, data)
    THEN "Linear " \o event_type \o " event received with data: " \o data.repr
    ELSE CASE event_type = "Issue" -> format_issue_event(data)
           [] event_type = "Comment" -> format_comment_event(data)
           [] event_type = "Project" -> format_project_event(data)
           [] OTHER ->
                "New " \o event_type \o " event (ID: "
                    \o Str(Get(data.id, "unknown")) \o ")\n\nEvent data: "
                    \o data.repr

\* ------------------------------------------------------------------ auth

\* hmac.compare_digest(a, b) on two str: TypeError when one is not ASCII.
CompareDigestRaises(a, b) == a = NonAsciiSignature \/ b = NonAsciiSignature

\* Mutant: an exception while comparing is taken for a match (fails open).
verify_fail_open(payload, signature, secret) ==
    IF ~Truthy(signature) \/ ~Truthy(secret)
    THEN FALSE
    ELSE IF CompareDigestRaises(signature, hmac_hex(secret, payload))
         THEN TRUE
         ELSE signature = hmac_hex(secret, payload)

\* Mutant: no guard on an empty signature or secret; the exceptions that
\* None raises inside the try block are caught.
verify_without_guard(payload, signature, secret) ==
    IF signature = NoneVal \/ secret = NoneVal
    THEN FALSE
    ELSE IF CompareDigestRaises(signature, hmac_hex(secret, payload))
         THEN FALSE
         ELSE signature = hmac_hex(secret, payload)

\* Mutant: the digest is computed over an empty message, not the payload.
verify_ignores_payload(payload, signature, secret) ==
    IF ~Truthy(signature) \/ ~Truthy(secret)
    THEN FALSE
    ELSE IF CompareDigestRaises(signature, hmac_hex(secret, ""))
         THEN FALSE
         ELSE signature = hmac_hex(secret, "")

verify_linear_signature(payload, signature, secret) ==
    IF ~Truthy(signature) \/ ~Truthy(secret)
    THEN FALSE
    ELSE IF CompareDigestRaises(signature, hmac_hex(secret, payload))
         THEN FALSE
         ELSE signature = hmac_hex(secret, payload)

\* Mutant: a request without a token parameter passes the token check.
TokenRejectedIfPresent(config_token, token) ==
    Truthy(config_token) /\ token # NoneVal /\ token # config_token

\* The token check of the decorator fails.
TokenRejected(config_token, token) ==
    Truthy(config_token) /\ token # config_token

\* The decorator reaches the signature check and calls the verifier.
VerifierInvoked(config_token, config_secret, req) ==
    ~TokenRejected(config_token, req.token) /\ Truthy(config_secret)

\* Mutant: the signature check comes before the token check.
require_webhook_auth_signature_first(config_token, config_secret, req) ==
    IF Truthy(config_secret)
        /\ ~verify_linear_signature(req.body, req.signature, config_secret)
    THEN "Invalid signature"
    ELSE IF TokenRejected(config_token, req.token)
         THEN "Unauthorized"
         ELSE NoneVal

\* Mutant: the signature is verified whether or not a secret is configured.
require_webhook_auth_always_verify(config_token, config_secret, req) ==
    IF TokenRejected(config_token, req.token)
    THEN "Unauthorized"
    ELSE IF ~verify_linear_signature(req.body, req.signature, config_secret)
         THEN "Invalid signature"
         ELSE NoneVal

\* Mutant: a request without a body is not verified.
require_webhook_auth_skip_empty_body(config_token, config_secret, req) ==
    IF TokenRejected(config_token, req.token)
    THEN "Unauthorized"
    ELSE IF Truthy(config_secret) /\ req.body # ""
            /\ ~verify_linear_signature(req.body, req.signature, config_secret)
         THEN "Invalid signature"
         ELSE NoneVal

\* The decision of the decorator: "Unauthorized", "Invalid signature", or
\* NoneVal when it calls the wrapped handler.
require_webhook_auth(config_token, config_secret, req) ==
    IF TokenRejected(config_token, req.token)
    THEN "Unauthorized"
    ELSE IF Truthy(config_secret)
            /\ ~verify_linear_signature(req.body, req.signature, config_secret)
         THEN "Invalid signature"
         ELSE NoneVal

\* ------------------------------------------------------------------ filter

\* str.lower() on the event types of the model.
Lower(s) ==
    CASE s = "Issue" -> "issue"
      [] s = "Comment" -> "comment"
      [] OTHER -> s

\* Mutant: the filter is a block list.
EventFilteredBlockList(event_type, filter) ==
    /\ filter # <<>>
    /\ filter[1] # <<>>
    /\ event_type \in Range(filter[1])

\* Mutant: the event type is matched without regard to case.
EventFilteredIgnoreCase(event_type, filter) ==
    /\ filter # <<>>
    /\ filter[1] # <<>>
    /\ Lower(event_type) \notin { Lower(x) : x \in Range(filter[1]) }

\* The handler skips the event: a filter is configured (a non-empty list)
\* and the event type is not one of its items.
EventFiltered(event_type, filter) ==
    /\ filter # <<>>
    /\ filter[1] # <<>>
    /\ event_type \notin Range(filter[1])

\* ------------------------------------------------------------------ stream

\* The events the agent runtime may yield.  has_chunk tells whether the
\* event has data.chunk; content is data.chunk.content, NoneVal when the
\* chunk has no content.
StreamEvent(event, has_chunk, content) ==
    [event |-> event, has_chunk |-> has_chunk, content |-> content]

StreamEvents ==
    { StreamEvent("on_chat_model_stream", TRUE, "Hel"),
      StreamEvent("on_chat_model_stream", TRUE, "lo"),
      StreamEvent("on_chat_model_stream", FALSE, NoneVal),
      StreamEvent("on_chain_start", TRUE, "noise") }

\* Mutant: the content of every event is collected, whatever its kind.
CollectChunkAnyEvent(agent_response, chunk) ==
    IF chunk.has_chunk /\ Truthy(chunk.content)
    THEN Append(agent_response, chunk.content)
    ELSE agent_response

\* The body of the "async for" loop: the list the chunk leaves behind.
CollectChunk(agent_response, chunk) ==
    IF chunk.event = "on_chat_model_stream"
        /\ chunk.has_chunk
        /\ Truthy(chunk.content)
    THEN Append(agent_response, chunk.content)
    ELSE agent_response

\* "".join(list)
RECURSIVE Join(_)
Join(list) == IF list = <<>> THEN "" ELSE Head(list) \o Join(Tail(list))

\* Thread identifiers the agent runtime may return, and the messages of the
\* exceptions its calls may raise.
ThreadIds == {"thread-1", "thread-2"}
ErrorMessages == {"connection failed"}

\* What trigger_langsmith_agent returns.
Success(thread_id, response_text) ==
    [success |-> TRUE, thread_id |-> thread_id, response |-> response_text,
     error |-> NoneVal]
Failure(message) ==
    [success |-> FALSE, thread_id |-> NoneVal, response |-> NoneVal,
     error |-> message]
NoResult ==
    [success |-> FALSE, thread_id |-> NoneVal, response |-> NoneVal,
     error |-> NoneVal]

\* ------------------------------------------------------------------ responses

\* The JSON body and status code the handler returns; a key the body does
\* not have is NoneVal.
Response(code, status, error, thread_id, message) ==
    [code |-> code, status |-> status, error |-> error,
     thread_id |-> thread_id, message |-> message]

NoResponse == Response(0, NoneVal, NoneVal, NoneVal, NoneVal)
UnauthorizedResponse == Response(401, NoneVal, "Unauthorized", NoneVal, NoneVal)
InvalidSignatureResponse ==
    Response(401, NoneVal, "Invalid signature", NoneVal, NoneVal)
EmptyPayloadResponse == Response(400, NoneVal, "Empty payload", NoneVal, NoneVal)
InvalidJsonResponse == Response(400, NoneVal, "Invalid JSON", NoneVal, NoneVal)
\* Mutant: the exception leaves the handler and the 500 error handler of the
\* application answers.
UnhandledErrorResponse ==
    Response(500, NoneVal, "Internal server error", NoneVal, NoneVal)

\* The answer of the handler's "except Exception".
InternalErrorResponse ==
    Response(500, "error", "Internal server error", NoneVal, NoneVal)
FilteredResponse(event_type) ==
    Response(200, "filtered", NoneVal, NoneVal,
             "Event type " \o event_type \o " not in filter")

\* The response the handler builds from the dispatcher's result.
ResultResponse(result) ==
    IF result.success
    THEN Response(200, "success", NoneVal, result.thread_id,
                  "Agent triggered successfully")
    ELSE Response(500, "error", result.error, NoneVal, NoneVal)

\* ------------------------------------------------------------------ state

VARIABLES
    WEBHOOK_SECRET_TOKEN,   \* Config.WEBHOOK_SECRET_TOKEN
    LINEAR_SIGNING_SECRET,  \* Config.LINEAR_SIGNING_SECRET
    LINEAR_EVENT_FILTER,    \* Config.LINEAR_EVENT_FILTER
    pc,                 \* where each delivery's request thread is
    request,            \* the request of each delivery: token, signature, body
    event_type,         \* handler local
    data,               \* handler local
    thread_id,          \* dispatcher local
    formatted_message,  \* dispatcher local
    agent_response,     \* dispatcher local: the list of collected contents
    result,             \* what trigger_langsmith_agent returned
    response,           \* what the delivery's caller got
    calls,              \* history: how often each component was invoked,
                        \* the thread threads.create() returned (created)
                        \* and the thread runs.stream() was given
                        \* (streamed_on)
    stream,             \* history: the events the runtime yielded so far
    verify_call,        \* a call of verify_linear_signature on its own
    format_call         \* a call of format_linear_event on its own

vars ==
    << WEBHOOK_SECRET_TOKEN, LINEAR_SIGNING_SECRET, LINEAR_EVENT_FILTER,
       pc, request, event_type, data, thread_id, formatted_message,
       agent_response, result, response, calls, stream,
       verify_call, format_call >>

config == << WEBHOOK_SECRET_TOKEN, LINEAR_SIGNING_SECRET, LINEAR_EVENT_FILTER >>
pure_calls == << verify_call, format_call >>

NoRequest == [token |-> NoneVal, signature |-> NoneVal, body |-> BodyEmpty]
NoCalls ==
    [verify |-> 0, get_json |-> 0, filter |-> 0, format |-> 0,
     create_thread |-> 0, stream_run |-> 0,
     created |-> NoneVal, streamed_on |-> NoneVal]

\* A call of one of the two pure functions: its arguments, whether it is
\* not made ("none"), made ("called") or over ("returned"), and what it
\* returned.
VerifyCall(payload, signature, secret) ==
    [payload |-> payload, signature |-> signature, secret |-> secret,
     state |-> "called", out |-> FALSE]
FormatCall(kind, event_data) ==
    [event_type |-> kind, data |-> event_data, state |-> "called",
     out |-> NoneVal]
NoVerifyCall == [VerifyCall(BodyEmpty, NoneVal, NoneVal) EXCEPT !.state = "none"]
NoFormatCall == [FormatCall(NoneVal, DataEmpty) EXCEPT !.state = "none"]

\* No delivery is being handled.
NoDeliveries ==
    /\ pc = [d \in DeliveryIds |-> "idle"]
    /\ request = [d \in DeliveryIds |-> NoRequest]
    /\ event_type = [d \in DeliveryIds |-> NoneVal]
    /\ data = [d \in DeliveryIds |-> DataMissing]
    /\ thread_id = [d \in DeliveryIds |-> NoneVal]
    /\ formatted_message = [d \in DeliveryIds |-> NoneVal]
    /\ agent_response = [d \in DeliveryIds |-> <<>>]
    /\ result = [d \in DeliveryIds |-> NoResult]
    /\ response = [d \in DeliveryIds |-> NoResponse]
    /\ calls = [d \in DeliveryIds |-> NoCalls]
    /\ stream = [d \in DeliveryIds |-> <<>>]

Init ==
    /\ WEBHOOK_SECRET_TOKEN \in TokenEnvs
    /\ LINEAR_SIGNING_SECRET \in SecretEnvs
    /\ LINEAR_EVENT_FILTER \in { EventFilterOf(env) : env \in FilterEnvs }
    /\ pc = [d \in DeliveryIds |-> "idle"]
    /\ request = [d \in DeliveryIds |-> NoRequest]
    /\ event_type = [d \in DeliveryIds |-> NoneVal]
    /\ data = [d \in DeliveryIds |-> DataMissing]
    /\ thread_id = [d \in DeliveryIds |-> NoneVal]
    /\ formatted_message = [d \in DeliveryIds |-> NoneVal]
    /\ agent_response = [d \in DeliveryIds |-> <<>>]
    /\ result = [d \in DeliveryIds |-> NoResult]
    /\ response = [d \in DeliveryIds |-> NoResponse]
    /\ calls = [d \in DeliveryIds |-> NoCalls]
    /\ stream = [d \in DeliveryIds |-> <<>>]
    /\ verify_call = NoVerifyCall
    /\ format_call = NoFormatCall

\* The handler returns resp to the caller of delivery d.
Respond(d, resp) ==
    /\ response' = [response EXCEPT ![d] = resp]
    /\ pc' = [pc EXCEPT ![d] = "done"]

\* A delivery arrives: the server hands its request to a request thread.
Arrive(d) ==
    /\ pc[d] = "idle"
    /\ \E t \in QueryTokens, b \in RawBodies :
         \E s \in SignatureHeaders(b) :
            request' = [request EXCEPT
                          ![d] = [token |-> t, signature |-> s, body |-> b]]
    /\ pc' = [pc EXCEPT ![d] = "auth"]
    /\ UNCHANGED << config, pure_calls, event_type, data, thread_id,
                    formatted_message, agent_response, result, response,
                    calls, stream >>

\* Mutant: a body that is absent, unparseable or empty is answered before
\* the token and the signature are checked.
AuthGateParsesFirst(d) ==
    /\ pc[d] = "auth"
    /\ LET decision == require_webhook_auth(WEBHOOK_SECRET_TOKEN,
                                            LINEAR_SIGNING_SECRET, request[d])
           verified == VerifierInvoked(WEBHOOK_SECRET_TOKEN,
                                       LINEAR_SIGNING_SECRET, request[d])
       IN IF request[d].body
               \in {BodyUnparseable, BodyEmpty, BodyNull, BodyEmptyObject}
          THEN /\ calls' = [calls EXCEPT ![d].get_json = @ + 1]
               /\ Respond(d, EmptyPayloadResponse)
          ELSE /\ calls' = [calls EXCEPT
                              ![d].verify = @ + (IF verified THEN 1 ELSE 0)]
               /\ IF decision = "Unauthorized"
                  THEN Respond(d, UnauthorizedResponse)
                  ELSE IF decision = "Invalid signature"
                       THEN Respond(d, InvalidSignatureResponse)
                       ELSE /\ pc' = [pc EXCEPT ![d] = "handler"]
                            /\ UNCHANGED response
    /\ UNCHANGED << config, pure_calls, request, event_type, data, thread_id,
                    formatted_message, agent_response, result, stream >>

\* decorated_function: the token check, then the signature check, then the
\* wrapped handler.
AuthGate(d) ==
    /\ pc[d] = "auth"
    /\ LET decision == require_webhook_auth(WEBHOOK_SECRET_TOKEN,
                                            LINEAR_SIGNING_SECRET, request[d])
           verified == VerifierInvoked(WEBHOOK_SECRET_TOKEN,
                                       LINEAR_SIGNING_SECRET, request[d])
       IN /\ calls' = [calls EXCEPT
                         ![d].verify = @ + (IF verified THEN 1 ELSE 0)]
          /\ IF decision = "Unauthorized"
             THEN Respond(d, UnauthorizedResponse)
             ELSE IF decision = "Invalid signature"
                  THEN Respond(d, InvalidSignatureResponse)
                  ELSE /\ pc' = [pc EXCEPT ![d] = "handler"]
                       /\ UNCHANGED response
    /\ UNCHANGED << config, pure_calls, request, event_type, data, thread_id,
                    formatted_message, agent_response, result, stream >>

\* handle_linear_webhook up to the first await of the dispatcher: parse the
\* body, extract the event, apply the filter, and start the dispatcher,
\* which requests a thread.
HandleWebhook(d) ==
    /\ pc[d] = "handler"
    /\ \E parsed \in get_json(request[d].body) :
         LET payload == parsed.payload
             type == Get(payload.type, "unknown")
             filtered == EventFiltered(type, LINEAR_EVENT_FILTER)
         IN
         IF parsed.raises = "JSONDecodeError" THEN
              /\ Respond(d, InvalidJsonResponse)
              /\ calls' = [calls EXCEPT ![d].get_json = @ + 1]
              /\ UNCHANGED << event_type, data >>
         ELSE IF parsed.raises # NoneVal THEN
              /\ Respond(d, InternalErrorResponse)
              /\ calls' = [calls EXCEPT ![d].get_json = @ + 1]
              /\ UNCHANGED << event_type, data >>
         ELSE IF payload.shape \in {"none", "empty"} THEN
              /\ Respond(d, EmptyPayloadResponse)
              /\ calls' = [calls EXCEPT ![d].get_json = @ + 1]
              /\ UNCHANGED << event_type, data >>
         ELSE IF payload.shape # "mapping" THEN
              \* payload.get raises AttributeError: "except Exception"
              /\ Respond(d, InternalErrorResponse)
              /\ calls' = [calls EXCEPT ![d].get_json = @ + 1]
              /\ UNCHANGED << event_type, data >>
         ELSE
              /\ event_type' = [event_type EXCEPT ![d] = type]
              /\ data' = [data EXCEPT
                            ![d] = IF payload.data.shape = "missing"
                                   THEN DataEmpty ELSE payload.data]
              /\ IF filtered
                 THEN /\ Respond(d, FilteredResponse(type))
                      /\ calls' = [calls EXCEPT ![d].get_json = @ + 1,
                                                ![d].filter = @ + 1]
                 ELSE /\ pc' = [pc EXCEPT ![d] = "create_thread"]
                      /\ calls' = [calls EXCEPT ![d].get_json = @ + 1,
                                                ![d].filter = @ + 1,
                                                ![d].create_thread = @ + 1]
                      /\ UNCHANGED response
    /\ UNCHANGED << config, pure_calls, request, thread_id, formatted_message,
                    agent_response, result, stream >>

\* Mutant: the run is opened with no message formatted.
ThreadCreatedWithoutFormat(d) ==
    /\ pc[d] = "create_thread"
    /\ \E t \in ThreadIds :
         /\ thread_id' = [thread_id EXCEPT ![d] = t]
         /\ calls' = [calls EXCEPT ![d].stream_run = @ + 1,
                                   ![d].created = t,
                                   ![d].streamed_on = thread_id'[d]]
    /\ agent_response' = [agent_response EXCEPT ![d] = <<>>]
    /\ pc' = [pc EXCEPT ![d] = "streaming"]
    /\ UNCHANGED << config, pure_calls, request, event_type, data,
                    formatted_message, result, response, stream >>

\* client.threads.create() returns a thread: the dispatcher formats the
\* event, builds the input and opens the streamed run.
ThreadCreated(d) ==
    /\ pc[d] = "create_thread"
    /\ \E t \in ThreadIds :
         /\ thread_id' = [thread_id EXCEPT ![d] = t]
         /\ calls' = [calls EXCEPT ![d].format = @ + 1,
                                   ![d].stream_run = @ + 1,
                                   ![d].created = t,
                                   ![d].streamed_on = thread_id'[d]]
    /\ formatted_message' =
         [formatted_message EXCEPT
            ![d] = format_linear_event(event_type[d], data[d])]
    /\ agent_response' = [agent_response EXCEPT ![d] = <<>>]
    /\ pc' = [pc EXCEPT ![d] = "streaming"]
    /\ UNCHANGED << config, pure_calls, request, event_type, data, result,
                    response, stream >>

\* The dispatcher returns res; the handler closes its event loop and answers.
Finish(d, res) ==
    /\ result' = [result EXCEPT ![d] = res]
    /\ Respond(d, ResultResponse(res))

\* Mutant: the failure of client.threads.create() is swallowed and the run
\* is streamed without a thread.
ThreadCreateFailsSwallowed(d) ==
    /\ pc[d] = "create_thread"
    /\ pc' = [pc EXCEPT ![d] = "streaming"]
    /\ calls' = [calls EXCEPT ![d].stream_run = @ + 1]
    /\ UNCHANGED << config, pure_calls, request, event_type, data, thread_id,
                    formatted_message, agent_response, result, response,
                    stream >>

\* Mutant: a failed thread request is made again.
ThreadCreateFailsRetry(d) ==
    /\ pc[d] = "create_thread"
    /\ calls[d].create_thread < 2
    /\ calls' = [calls EXCEPT ![d].create_thread = @ + 1]
    /\ UNCHANGED << config, pure_calls, pc, request, event_type, data,
                    thread_id, formatted_message, agent_response, result,
                    response, stream >>

\* client.threads.create() raises.
ThreadCreateFails(d) ==
    /\ pc[d] = "create_thread"
    /\ \E e \in ErrorMessages : Finish(d, Failure(e))
    /\ UNCHANGED << config, pure_calls, request, event_type, data, thread_id,
                    formatted_message, agent_response, calls, stream >>

\* The stream yields one more event.
StreamChunk(d) ==
    /\ pc[d] = "streaming"
    /\ Len(stream[d]) < MaxStreamLen
    /\ \E chunk \in StreamEvents :
         /\ stream' = [stream EXCEPT ![d] = Append(@, chunk)]
         /\ agent_response' =
              [agent_response EXCEPT ![d] = CollectChunk(@, chunk)]
    /\ UNCHANGED << config, pure_calls, pc, request, event_type, data,
                    thread_id, formatted_message, result, response, calls >>

\* Mutant: a failed stream returns what it collected so far.
StreamFailsPartial(d) ==
    /\ pc[d] = "streaming"
    /\ \E e \in ErrorMessages :
         Finish(d, [Failure(e) EXCEPT !.response = Join(agent_response[d])])
    /\ UNCHANGED << config, pure_calls, request, event_type, data, thread_id,
                    formatted_message, agent_response, calls, stream >>

\* Mutant: after a failure the run is streamed again from its start.
StreamFailsRestarts(d) ==
    /\ pc[d] = "streaming"
    /\ stream[d] # <<>>
    /\ stream' = [stream EXCEPT ![d] = <<>>]
    /\ agent_response' = [agent_response EXCEPT ![d] = <<>>]
    /\ UNCHANGED << config, pure_calls, pc, request, event_type, data,
                    thread_id, formatted_message, result, response, calls >>

\* The stream raises (a network failure), before or between events.
StreamFails(d) ==
    /\ pc[d] = "streaming"
    /\ \E e \in ErrorMessages : Finish(d, Failure(e))
    /\ UNCHANGED << config, pure_calls, request, event_type, data, thread_id,
                    formatted_message, agent_response, calls, stream >>

\* The stream ends: the dispatcher joins what it collected.
StreamEnds(d) ==
    /\ pc[d] = "streaming"
    /\ Finish(d, Success(thread_id[d], Join(agent_response[d])))
    /\ UNCHANGED << config, pure_calls, request, event_type, data, thread_id,
                    formatted_message, agent_response, calls, stream >>

\* The request is over: its thread is free for the next delivery.
Discard(d) ==
    /\ pc[d] = "done"
    /\ pc' = [pc EXCEPT ![d] = "idle"]
    /\ request' = [request EXCEPT ![d] = NoRequest]
    /\ event_type' = [event_type EXCEPT ![d] = NoneVal]
    /\ data' = [data EXCEPT ![d] = DataMissing]
    /\ thread_id' = [thread_id EXCEPT ![d] = NoneVal]
    /\ formatted_message' = [formatted_message EXCEPT ![d] = NoneVal]
    /\ agent_response' = [agent_response EXCEPT ![d] = <<>>]
    /\ result' = [result EXCEPT ![d] = NoResult]
    /\ response' = [response EXCEPT ![d] = NoResponse]
    /\ calls' = [calls EXCEPT ![d] = NoCalls]
    /\ stream' = [stream EXCEPT ![d] = <<>>]
    /\ UNCHANGED << config, pure_calls >>

\* No other delivery is being handled, and d is the first request thread.
Alone(d) == \A e \in DeliveryIds \ {d} : pc[e] = "idle" /\ d < e

\* Deliveries handled one at a time, each by the first free request thread.
Next ==
    \E d \in DeliveryIds :
        \/ Alone(d) /\ Arrive(d)
        \/ AuthGate(d)
        \/ HandleWebhook(d)
        \/ ThreadCreated(d)
        \/ ThreadCreateFails(d)
        \/ StreamChunk(d)
        \/ StreamFails(d)
        \/ StreamEnds(d)
        \/ Discard(d)

Spec == Init /\ [][Next]_vars

\* ------------------------------------------------- concurrent deliveries

\* The requests and stream events of the concurrent deliveries: the
\* configured token or another one; a signed Issue event or a signed event
\* without a type; two chat-model fragments.
ConcurrentTokens == {"tok", "bad"}
ConcurrentBodies == {BodyIssue, BodyNoType}
ConcurrentStreamEvents ==
    { StreamEvent("on_chat_model_stream", TRUE, "Hel"),
      StreamEvent("on_chat_model_stream", TRUE, "lo") }

\* Token, signing secret and filter are configured; no delivery yet.
InitConcurrent ==
    /\ WEBHOOK_SECRET_TOKEN = "tok"
    /\ LINEAR_SIGNING_SECRET = "sec"
    /\ LINEAR_EVENT_FILTER = EventFilterOf(<< <<"Issue", ",", "Comment">> >>)
    /\ NoDeliveries
    /\ verify_call = NoVerifyCall
    /\ format_call = NoFormatCall

\* A delivery arrives while others may be under way.
ArriveConcurrent(d) ==
    /\ pc[d] = "idle"
    /\ \E t \in ConcurrentTokens, b \in ConcurrentBodies :
         request' = [request EXCEPT
                       ![d] = [token |-> t, signature |-> hmac_hex("sec", b),
                               body |-> b]]
    /\ pc' = [pc EXCEPT ![d] = "auth"]
    /\ UNCHANGED << config, pure_calls, event_type, data, thread_id,
                    formatted_message, agent_response, result, response,
                    calls, stream >>

\* Mutant: the collected contents are one list shared by the runs under way.
StreamChunkConcurrentShared(d) ==
    /\ pc[d] = "streaming"
    /\ Len(stream[d]) < MaxConcurrentStreamLen
    /\ \E chunk \in ConcurrentStreamEvents :
         /\ stream' = [stream EXCEPT ![d] = Append(@, chunk)]
         /\ agent_response' =
              [e \in DeliveryIds |->
                 IF pc[e] = "streaming"
                 THEN CollectChunk(agent_response[e], chunk)
                 ELSE agent_response[e]]
    /\ UNCHANGED << config, pure_calls, pc, request, event_type, data,
                    thread_id, formatted_message, result, response, calls >>

\* The stream of a delivery yields one more event.
StreamChunkConcurrent(d) ==
    /\ pc[d] = "streaming"
    /\ Len(stream[d]) < MaxConcurrentStreamLen
    /\ \E chunk \in ConcurrentStreamEvents :
         /\ stream' = [stream EXCEPT ![d] = Append(@, chunk)]
         /\ agent_response' =
              [agent_response EXCEPT ![d] = CollectChunk(@, chunk)]
    /\ UNCHANGED << config, pure_calls, pc, request, event_type, data,
                    thread_id, formatted_message, result, response, calls >>

\* Deliveries handled concurrently: each request thread runs its handler,
\* the steps of the handlers interleaved at will.
NextConcurrent ==
    \E d \in DeliveryIds :
        \/ ArriveConcurrent(d)
        \/ AuthGate(d)
        \/ HandleWebhook(d)
        \/ ThreadCreated(d)
        \/ ThreadCreateFails(d)
        \/ StreamChunkConcurrent(d)
        \/ StreamFails(d)
        \/ StreamEnds(d)
        \/ Discard(d)

SpecConcurrent == InitConcurrent /\ [][NextConcurrent]_vars

\* ------------------------------------------------- deliveries to their end

\* The deliveries followed to their end, each a token and a signed body:
\* with the configured token an Issue event, an event without a type, no
\* body, a JSON list; with another token no body.  Their streams yield one
\* kind of event.
LiveRequests ==
    { <<"tok", BodyIssue>>, <<"tok", BodyNoType>>, <<"tok", BodyEmpty>>,
      <<"tok", BodyList>>, <<"bad", BodyEmpty>> }
LiveStreamEvents == { StreamEvent("on_chat_model_stream", TRUE, "Hel") }

\* A delivery arrives while others may be under way.
ArriveLive(d) ==
    /\ pc[d] = "idle"
    /\ \E r \in LiveRequests :
         request' = [request EXCEPT
                       ![d] = [token |-> r[1],
                               signature |-> hmac_hex("sec", r[2]),
                               body |-> r[2]]]
    /\ pc' = [pc EXCEPT ![d] = "auth"]
    /\ UNCHANGED << config, pure_calls, event_type, data, thread_id,
                    formatted_message, agent_response, result, response,
                    calls, stream >>

\* The stream of a delivery yields one more event.
StreamChunkLive(d) ==
    /\ pc[d] = "streaming"
    /\ Len(stream[d]) < MaxConcurrentStreamLen
    /\ \E chunk \in LiveStreamEvents :
         /\ stream' = [stream EXCEPT ![d] = Append(@, chunk)]
         /\ agent_response' =
              [agent_response EXCEPT ![d] = CollectChunk(@, chunk)]
    /\ UNCHANGED << config, pure_calls, pc, request, event_type, data,
                    thread_id, formatted_message, result, response, calls >>

\* Each request thread handles one delivery, and what it answered stays.
NextLive ==
    \E d \in DeliveryIds :
        \/ ArriveLive(d)
        \/ AuthGate(d)
        \/ HandleWebhook(d)
        \/ ThreadCreated(d)
        \/ ThreadCreateFails(d)
        \/ StreamChunkLive(d)
        \/ StreamFails(d)
        \/ StreamEnds(d)

\* The decorator and the handler run on when they can; the create-thread
\* call returns or fails; the stream yields an event, fails or ends.
FairLive ==
    \A d \in DeliveryIds :
        /\ WF_vars(AuthGate(d))
        /\ WF_vars(HandleWebhook(d))
        /\ WF_vars(ThreadCreated(d) \/ ThreadCreateFails(d))
        /\ WF_vars(StreamChunkLive(d) \/ StreamFails(d) \/ StreamEnds(d))

SpecLive == InitConcurrent /\ [][NextLive]_vars /\ FairLive

\* ------------------------------------------------- the pure functions alone

\* Arguments of verify_linear_signature: payloads, secrets (None, empty, two
\* keys) and, for a payload, signatures: absent, empty, not ASCII, the
\* digest of the payload or of another payload under each key, and such a
\* digest with one character changed.
VerifyPayloads == {BodyEmpty, BodyIssue, BodyComment}
VerifyKeys == {"", "sec", "key"}
VerifySecrets == {NoneVal} \cup VerifyKeys
Mutated(signature) == "x" \o SubSeq(signature, 2, Len(signature))
VerifySignatures(payload) ==
    {NoneVal, "", NonAsciiSignature}
        \cup { hmac_hex(k, payload) : k \in VerifyKeys }
        \cup { hmac_hex(k, BodyComment) : k \in VerifyKeys }
        \cup { Mutated(hmac_hex(k, payload)) : k \in VerifyKeys }

VerifyCalls ==
    { VerifyCall(p, g, k) :
        p \in VerifyPayloads,
        g \in UNION { VerifySignatures(q) : q \in VerifyPayloads },
        k \in VerifySecrets }

\* Arguments of format_linear_event: event kinds (the three known ones, one
\* differing in case, others) and event data (mappings with fields and
\* nested objects present, missing or null; values that are no mapping).
FormatKinds == {"Issue", "Comment", "Project", "issue", "Cycle", "unknown"}
FormatData ==
    { DataEmpty, DataIssue, DataNullAssignee, DataAssigned, DataAssigneeNoName,
      DataNullState, DataComment, DataNullUser, DataProject, DataNullLead,
      DataList, DataNone }
FormatCalls == { FormatCall(k, e) : k \in FormatKinds, e \in FormatData }

\* One of the two functions is called, outside any delivery.
InitPure ==
    /\ WEBHOOK_SECRET_TOKEN = NoneVal
    /\ LINEAR_SIGNING_SECRET = NoneVal
    /\ LINEAR_EVENT_FILTER = <<>>
    /\ NoDeliveries
    /\ \/ verify_call \in VerifyCalls /\ format_call = NoFormatCall
       \/ verify_call = NoVerifyCall /\ format_call \in FormatCalls

\* verify_linear_signature returns.
ApplyVerify ==
    /\ verify_call.state = "called"
    /\ verify_call' =
         [verify_call EXCEPT
            !.state = "returned",
            !.out = verify_linear_signature(verify_call.payload,
                                            verify_call.signature,
                                            verify_call.secret)]
    /\ UNCHANGED << config, pc, request, event_type, data, thread_id,
                    formatted_message, agent_response, result, response,
                    calls, stream, format_call >>

\* format_linear_event returns.
ApplyFormat ==
    /\ format_call.state = "called"
    /\ format_call' =
         [format_call EXCEPT
            !.state = "returned",
            !.out = format_linear_event(format_call.event_type,
                                        format_call.data)]
    /\ UNCHANGED << config, pc, request, event_type, data, thread_id,
                    formatted_message, agent_response, result, response,
                    calls, stream, verify_call >>

NextPure == ApplyVerify \/ ApplyFormat

SpecPure == InitPure /\ [][NextPure]_vars

\* ------------------------------------------------------------------ claims

\* The status a response stands for: the two 401 answers carry no "status"
\* key and are told by their "error" text; the 400 answers are the
\* malformed-input client error.
Outcome(resp) ==
    CASE resp = UnauthorizedResponse -> "unauthorized"
      [] resp = InvalidSignatureResponse -> "invalid_signature"
      [] resp.code = 400 -> "malformed_input"
      [] resp.code = 200 /\ resp.status = "filtered" -> "filtered"
      [] resp.code = 200 /\ resp.status = "success" -> "success"
      [] resp.code = 500 /\ resp.status = "error" -> "error"
      [] OTHER -> "none"

Arrived(d) == pc[d] # "idle"
Done(d) == pc[d] = "done"

TokenConfigured == Truthy(WEBHOOK_SECRET_TOKEN)
SecretConfigured == Truthy(LINEAR_SIGNING_SECRET)
FilterConfigured == LINEAR_EVENT_FILTER # <<>> /\ LINEAR_EVENT_FILTER[1] # <<>>

\* The delivery's query token is the configured one.
TokenMatches(d) == request[d].token = WEBHOOK_SECRET_TOKEN
\* The delivery's signature header is the digest of its raw body under the
\* configured secret.
SignatureMatches(d) ==
    request[d].signature = hmac_hex(LINEAR_SIGNING_SECRET, request[d].body)

NoDispatch(d) == calls[d].create_thread = 0 /\ calls[d].stream_run = 0

\* C1 as stated: with a signing secret configured, a delivery whose
\* signature does not verify ends as "invalid_signature" and the dispatcher
\* is never invoked for it.
C1_Original ==
    \A d \in DeliveryIds :
        (Arrived(d) /\ SecretConfigured /\ ~SignatureMatches(d)) =>
            /\ NoDispatch(d)
            /\ Done(d) => Outcome(response[d]) = "invalid_signature"

\* C1 amended: with a signing secret configured, a delivery whose signature
\* does not verify never reaches the dispatcher, and it ends as
\* "invalid_signature" provided it passed the token check (no token is
\* configured, or its query token is the configured one).
C1_InvalidSignature ==
    \A d \in DeliveryIds :
        (Arrived(d) /\ SecretConfigured /\ ~SignatureMatches(d)) =>
            /\ NoDispatch(d)
            /\ pc[d] \in {"auth", "done"}
            /\ (Done(d) /\ (~TokenConfigured \/ TokenMatches(d))) =>
                    Outcome(response[d]) = "invalid_signature"

\* A delivery signed over another body was rejected as an invalid signature.
C1_Witness ==
    \E d \in DeliveryIds :
        /\ Done(d) /\ SecretConfigured
        /\ request[d].body = BodyIssue
        /\ request[d].signature = hmac_hex(LINEAR_SIGNING_SECRET, BodyComment)
        /\ response[d] = InvalidSignatureResponse
        /\ NoDispatch(d)

\* C2: with a secret token configured, a delivery whose query token is
\* absent or differs from it ends as "unauthorized", and neither the body
\* parsing nor the filter, the formatter or the dispatcher runs for it.
C2_Unauthorized ==
    \A d \in DeliveryIds :
        (Arrived(d) /\ TokenConfigured /\ ~TokenMatches(d)) =>
            /\ pc[d] \in {"auth", "done"}
            /\ Done(d) => Outcome(response[d]) = "unauthorized"
            /\ calls[d].get_json = 0 /\ calls[d].filter = 0
            /\ calls[d].format = 0 /\ NoDispatch(d)

\* A delivery without a token parameter was rejected with a token configured.
C2_Witness ==
    \E d \in DeliveryIds :
        /\ Done(d) /\ TokenConfigured
        /\ request[d].token = NoneVal
        /\ response[d] = UnauthorizedResponse

\* The decorator has decided on the delivery.
AuthDecided(d) == pc[d] \notin {"idle", "auth"}
\* The decorator called the wrapped handler.
Admitted(d) == AuthDecided(d) /\ ~(Done(d) /\ response[d].code = 401)

\* C3: the token check comes before the signature check and each runs only
\* if its secret is configured: a delivery failing the token check is
\* "unauthorized" whatever its signature and the verifier is not invoked
\* for it; the verifier is invoked exactly when a signing secret is
\* configured and the token check passed; a delivery is admitted iff every
\* configured check passes.
C3_TokenThenSignature ==
    \A d \in DeliveryIds :
        AuthDecided(d) =>
            /\ (TokenConfigured /\ ~TokenMatches(d)) =>
                    /\ Outcome(response[d]) = "unauthorized"
                    /\ calls[d].verify = 0
            /\ calls[d].verify =
                 (IF SecretConfigured /\ (~TokenConfigured \/ TokenMatches(d))
                  THEN 1 ELSE 0)
            /\ Admitted(d) <=>
                 /\ (TokenConfigured => TokenMatches(d))
                 /\ (SecretConfigured => SignatureMatches(d))

\* With both secrets configured, a delivery failing both checks was
\* rejected as unauthorized.
C3_Witness ==
    \E d \in DeliveryIds :
        /\ Done(d) /\ TokenConfigured /\ SecretConfigured
        /\ ~TokenMatches(d) /\ ~SignatureMatches(d)
        /\ response[d] = UnauthorizedResponse
        /\ calls[d].verify = 0

\* C4: with neither secret configured the decorator admits every delivery:
\* none ends as "unauthorized" or "invalid_signature".
C4_AllowAll ==
    (~TokenConfigured /\ ~SecretConfigured) =>
        \A d \in DeliveryIds :
            /\ Outcome(response[d]) \notin {"unauthorized", "invalid_signature"}
            /\ response[d].code # 401
            /\ AuthDecided(d) => Admitted(d) /\ calls[d].verify = 0
            /\ Done(d) => calls[d].get_json = 1

\* With neither secret configured, a delivery with a wrong token and a
\* signature made over another body reached the handler.
C4_Witness ==
    \E d \in DeliveryIds :
        /\ ~TokenConfigured /\ ~SecretConfigured
        /\ request[d].token = "bad"
        /\ request[d].body = BodyIssue
        /\ request[d].signature = hmac_hex("sec", BodyComment)
        /\ Done(d) /\ calls[d].get_json = 1

\* The handler extracted an event type from the delivery's payload.
HasEvent(d) == event_type[d] # NoneVal
FilterItems == IF FilterConfigured THEN Range(LINEAR_EVENT_FILTER[1]) ELSE {}

\* C5: with a non-empty filter configured, an admitted delivery whose event
\* type is not in it ends as "filtered", a 200 answer, and neither the
\* formatter nor the dispatcher is invoked for it.
C5_Filtered ==
    \A d \in DeliveryIds :
        (HasEvent(d) /\ FilterConfigured /\ event_type[d] \notin FilterItems) =>
            /\ Done(d)
            /\ Outcome(response[d]) = "filtered"
            /\ response[d].code = 200
            /\ calls[d].format = 0
            /\ NoDispatch(d)

\* An event of a type the filter lacks was answered "filtered".
C5_Witness ==
    \E d \in DeliveryIds :
        /\ FilterConfigured /\ HasEvent(d)
        /\ event_type[d] = "unknown"
        /\ response[d].status = "filtered"
        /\ calls[d].filter = 1

\* C6: the filter allows every event type when the filter configuration is
\* absent or empty, and otherwise allows an event type iff it is an exact,
\* case-sensitive item of the configured list.
C6_FilterMembership ==
    /\ \A env \in FilterEnvs :
         (env = <<>> \/ env[1] = <<>>) /\ (\A d \in DeliveryIds : ~Arrived(d)) =>
            \A b \in RawBodies : \A parsed \in get_json(b) :
                ~EventFiltered(Get(parsed.payload.type, "unknown"),
                               EventFilterOf(env))
    /\ \A d \in DeliveryIds :
         (HasEvent(d) /\ Done(d)) =>
            /\ calls[d].filter = 1
            /\ (Outcome(response[d]) = "filtered") <=>
                 (FilterConfigured /\ event_type[d] \notin FilterItems)

\* An event whose type differs from a filter item in case only was skipped.
C6_Witness ==
    \E d \in DeliveryIds :
        /\ Done(d) /\ FilterConfigured
        /\ event_type[d] = "issue"
        /\ "Issue" \in FilterItems
        /\ Outcome(response[d]) = "filtered"

\* The thread request of the delivery failed.
CreateFailed(d) ==
    calls[d].create_thread = 1 /\ thread_id[d] = NoneVal
        /\ pc[d] # "create_thread"

\* C7: if the create-thread call fails, the dispatcher returns a Failure,
\* the delivery ends as "error", and no stream run is opened for it.
C7_CreateThreadFails ==
    \A d \in DeliveryIds :
        CreateFailed(d) =>
            /\ Done(d)
            /\ ~result[d].success
            /\ result[d].error \in ErrorMessages
            /\ Outcome(response[d]) = "error"
            /\ response[d].error = result[d].error
            /\ calls[d].stream_run = 0
            /\ stream[d] = <<>>

\* A delivery whose thread request failed was answered with an error.
C7_Witness ==
    \E d \in DeliveryIds :
        /\ CreateFailed(d) /\ Done(d)
        /\ response[d].code = 500
        /\ calls[d].stream_run = 0

\* C8: a stream that fails after fragments were received yields a Failure
\* carrying only an error message; the fragments collected are neither in
\* the result nor in the answer, and no failed result carries response text.
C8_NoPartialResponse ==
    \A d \in DeliveryIds :
        /\ (Done(d) /\ calls[d].stream_run = 1 /\ ~result[d].success) =>
              /\ \E e \in ErrorMessages :
                    /\ result[d] = Failure(e)
                    /\ response[d] = Response(500, "error", e, NoneVal, NoneVal)
        /\ ~result[d].success => result[d].response = NoneVal
        /\ Outcome(response[d]) = "error" =>
              /\ response[d].message = NoneVal
              /\ response[d].thread_id = NoneVal

\* A stream failed after a fragment had been collected.
C8_Witness ==
    \E d \in DeliveryIds :
        /\ Done(d) /\ calls[d].stream_run = 1
        /\ ~result[d].success
        /\ agent_response[d] = <<"Hel", "lo">>
        /\ result[d].response = NoneVal

\* The text of the chat-model events of a stream, in arrival order.
RECURSIVE ChatModelText(_)
ChatModelText(events) ==
    IF events = <<>> THEN ""
    ELSE (IF Head(events).event = "on_chat_model_stream"
             /\ Head(events).content # NoneVal
          THEN Head(events).content ELSE "")
            \o ChatModelText(Tail(events))

\* C9: for a stream that ran to completion, the aggregated response text is
\* the concatenation, in arrival order, of the content of exactly the
\* "on_chat_model_stream" events; other events contribute nothing.
C9_Aggregation ==
    \A d \in DeliveryIds :
        (Done(d) /\ result[d].success) =>
            result[d].response = ChatModelText(stream[d])

\* Two fragments with an unrelated event between them were joined.
C9_Witness ==
    \E d \in DeliveryIds :
        /\ Done(d) /\ result[d].success
        /\ Len(stream[d]) = 3
        /\ stream[d][1].content = "Hel"
        /\ stream[d][2].event = "on_chain_start"
        /\ stream[d][3].content = "lo"
        /\ result[d].response = "Hello"

FiveStatuses ==
    {"unauthorized", "invalid_signature", "filtered", "success", "error"}

\* C10 as stated: every delivery ends with one of the five statuses.
C10_Original ==
    \A d \in DeliveryIds :
        Done(d) => Outcome(response[d]) \in FiveStatuses

\* The body of the delivery is no JSON, or is JSON null or an empty value.
BodyMalformed(d) ==
    \E parsed \in get_json(request[d].body) :
        parsed.raises # NoneVal \/ parsed.payload.shape \in {"none", "empty"}

\* C10 amended: every delivery ends with one of the five statuses or, when
\* its body is absent, unparseable or empty, with the malformed-input client
\* error (400, "Empty payload" or "Invalid JSON"); every exception is turned
\* into one of these answers.
C10_StructuredStatus ==
    \A d \in DeliveryIds :
        Done(d) =>
            /\ Outcome(response[d]) \in FiveStatuses \cup {"malformed_input"}
            /\ Outcome(response[d]) = "malformed_input" =>
                    /\ BodyMalformed(d)
                    /\ response[d] \in {EmptyPayloadResponse, InvalidJsonResponse}

\* A delivery whose payload is no mapping raised inside the handler and was
\* answered with the "error" status.
C10_Witness ==
    \E d \in DeliveryIds :
        /\ Done(d)
        /\ request[d].body = BodyList
        /\ response[d] = InternalErrorResponse

\* C11 as stated: the verifier is never invoked for a delivery whose body
\* is absent or not parseable.
C11_Original ==
    \A d \in DeliveryIds :
        (Arrived(d) /\ BodyMalformed(d)) => calls[d].verify = 0

\* C11 amended: the decorator runs before the body is parsed, so a delivery
\* whose body is absent or not parseable is answered as malformed input
\* only after the signature check: when a signing secret is configured the
\* verifier has run on its raw body (once, the token check having passed)
\* and its signature matched.
C11_MalformedAfterAuth ==
    \A d \in DeliveryIds :
        /\ calls[d].get_json > 0 =>
              /\ Admitted(d)
              /\ calls[d].verify = (IF SecretConfigured THEN 1 ELSE 0)
        /\ (Done(d) /\ Outcome(response[d]) = "malformed_input") =>
              /\ calls[d].get_json = 1
              /\ SecretConfigured =>
                    calls[d].verify = 1 /\ SignatureMatches(d)

\* With a signing secret configured, a delivery whose body is no JSON was
\* verified and then answered as malformed input.
C11_Witness ==
    \E d \in DeliveryIds :
        /\ Done(d) /\ SecretConfigured
        /\ request[d].body = BodyUnparseable
        /\ calls[d].verify = 1
        /\ Outcome(response[d]) = "malformed_input"

\* The keys of a response body.
ResponseKeys == {"status", "error", "thread_id", "message"}

\* C12: when a dispatch completes successfully, the response returned to
\* the caller has status "success" and carries both the thread identifier
\* of the dispatch and the agent's aggregated response text.
C12_SuccessCarriesResponse ==
    \A d \in DeliveryIds :
        (Done(d) /\ result[d].success) =>
            /\ response[d].status = "success"
            /\ response[d].thread_id = result[d].thread_id
            /\ \E k \in ResponseKeys : response[d][k] = result[d].response

\* s begins with t; t occurs in s.
StartsWith(s, t) == Len(s) >= Len(t) /\ SubSeq(s, 1, Len(t)) = t
Contains(s, t) ==
    \E i \in 1..(Len(s) - Len(t) + 1) : SubSeq(s, i, i + Len(t) - 1) = t

\* The dispatcher of the delivery returned a Failure.
Failed(d) == result[d].error # NoneVal

\* C18: for every delivery and every outcome the dispatcher makes at most
\* one create-thread call and at most one stream-run call; the run is
\* opened on the thread the delivery's own create-thread call returned,
\* never on another one; after a Failure the delivery is over, with no
\* further call to the agent runtime.
C18_AtMostOnce ==
    \A d \in DeliveryIds :
        /\ calls[d].create_thread <= 1
        /\ calls[d].stream_run <= calls[d].create_thread
        /\ calls[d].stream_run = 1 <=> calls[d].created # NoneVal
        /\ calls[d].streamed_on = calls[d].created
        /\ Failed(d) =>
              /\ Done(d)
              /\ calls[d].create_thread = 1
              /\ calls[d].stream_run = (IF CreateFailed(d) THEN 0 ELSE 1)

\* A delivery whose stream failed ended with one create-thread call and one
\* stream-run call.
C18_Witness ==
    \E d \in DeliveryIds :
        /\ Done(d) /\ Failed(d)
        /\ stream[d] # <<>>
        /\ calls[d].create_thread = 1
        /\ calls[d].stream_run = 1

\* C19 as stated: the formatted message exists before the create-thread
\* request is issued.
C19_Original ==
    \A d \in DeliveryIds :
        calls[d].create_thread >= 1 =>
            calls[d].format >= 1 /\ formatted_message[d] # NoneVal

\* C19 amended: for an admitted, unfiltered delivery the dispatcher issues
\* the create-thread request first and the formatter is invoked after that
\* request returned a thread: the formatted message exists before the
\* stream-run request is issued, not before the create-thread request, and
\* the order is Auth Gate, Event Filter, create-thread, Event Formatter,
\* stream run.
C19_FormatAfterCreate ==
    \A d \in DeliveryIds :
        /\ calls[d].create_thread >= 1 =>
              /\ Admitted(d)
              /\ calls[d].filter = 1
              /\ ~(FilterConfigured /\ event_type[d] \notin FilterItems)
        /\ pc[d] = "create_thread" =>
              calls[d].format = 0 /\ formatted_message[d] = NoneVal
        /\ calls[d].format >= 1 =>
              calls[d].create_thread = 1 /\ calls[d].created # NoneVal
        /\ calls[d].stream_run >= 1 =>
              calls[d].format = 1 /\ formatted_message[d] # NoneVal
        /\ CreateFailed(d) => calls[d].format = 0

\* An admitted Issue event has its thread and its formatted message, the
\* run being streamed.
C19_Witness ==
    \E d \in DeliveryIds :
        /\ pc[d] = "streaming"
        /\ event_type[d] = "Issue"
        /\ calls[d].created # NoneVal
        /\ calls[d].format = 1
        /\ StartsWith(formatted_message[d], "Linear Issue Updated")

\* The response a delivery gets, told from its own request and its own
\* dispatch alone.
OwnResponse(d) ==
    IF TokenConfigured /\ ~TokenMatches(d) THEN UnauthorizedResponse
    ELSE IF SecretConfigured /\ ~SignatureMatches(d)
         THEN InvalidSignatureResponse
    ELSE IF FilterConfigured /\ event_type[d] \notin FilterItems
         THEN FilteredResponse(event_type[d])
    ELSE IF Failed(d)
         THEN Response(500, "error", result[d].error, NoneVal, NoneVal)
         ELSE Response(200, "success", NoneVal, calls[d].created,
                       "Agent triggered successfully")

\* C20: under any interleaving of concurrent deliveries each delivery's run
\* is opened on the thread its own create-thread call returned, its success
\* result reports that thread, what it collects and returns are the
\* fragments of its own stream only, and its response follows from its own
\* request and dispatch.
C20_Isolation ==
    \A d \in DeliveryIds :
        /\ calls[d].stream_run = 1 =>
              /\ calls[d].streamed_on = calls[d].created
              /\ thread_id[d] = calls[d].created
              /\ Join(agent_response[d]) = ChatModelText(stream[d])
        /\ (Done(d) /\ result[d].success) =>
              /\ result[d].thread_id = calls[d].created
              /\ result[d].response = ChatModelText(stream[d])
        /\ (Done(d) /\ HasEvent(d)) => response[d] = OwnResponse(d)

\* Two deliveries were under way together, each on its own thread, one
\* ended with its own fragment while the other had collected another one.
C20_Witness ==
    \E d, e \in DeliveryIds :
        /\ d # e
        /\ Done(d) /\ result[d].success
        /\ result[d].response = "Hel"
        /\ pc[e] = "streaming"
        /\ agent_response[e] = <<"lo">>
        /\ calls[d].created # calls[e].created

\* The delivery fails a check of the decorator: a token is configured and
\* its query token is another one, or a signing secret is configured and
\* its signature is not the digest of its body.
GateRejects(d) ==
    \/ TokenConfigured /\ ~TokenMatches(d)
    \/ SecretConfigured /\ ~SignatureMatches(d)

\* C22: authentication comes before all body handling: for a delivery the
\* decorator rejects, the body is never parsed and the filter never
\* consulted; it ends as "unauthorized" or "invalid_signature" whatever its
\* body (empty, unparseable, of a filtered kind), never as "filtered",
\* malformed input or "error"; and nothing is parsed before the decorator
\* has decided.
C22_AuthBeforeBody ==
    \A d \in DeliveryIds :
        /\ (Arrived(d) /\ GateRejects(d)) =>
              /\ pc[d] \in {"auth", "done"}
              /\ calls[d].get_json = 0 /\ calls[d].filter = 0
              /\ event_type[d] = NoneVal
              /\ Done(d) =>
                    /\ Outcome(response[d])
                          \in {"unauthorized", "invalid_signature"}
                    /\ response[d].code = 401
        /\ pc[d] = "auth" => calls[d].get_json = 0 /\ calls[d].filter = 0
        /\ (Done(d) /\ response[d].code = 401) =>
              GateRejects(d) /\ calls[d].get_json = 0

\* A delivery with an unparseable body and a signature made over another
\* body was rejected as an invalid signature, its body never parsed.
C22_Witness ==
    \E d \in DeliveryIds :
        /\ Done(d) /\ SecretConfigured
        /\ request[d].body = BodyUnparseable
        /\ request[d].signature = hmac_hex("sec", BodyComment)
        /\ Outcome(response[d]) = "invalid_signature"
        /\ calls[d].get_json = 0

\* The state of the delivery in the orchestrator's state machine.
DeliveryState(d) ==
    CASE pc[d] = "idle" -> "None"
      [] pc[d] = "auth" -> "Received"
      [] pc[d] = "handler" -> "AuthChecked"
      [] pc[d] \in {"create_thread", "streaming"} -> "Dispatching"
      [] pc[d] = "done" ->
            CASE Outcome(response[d]) \in {"unauthorized", "invalid_signature"}
                    -> "Rejected"
              [] Outcome(response[d]) = "filtered" -> "Skipped"
              [] Outcome(response[d]) = "success" -> "Completed(success)"
              [] Outcome(response[d]) = "error" -> "Completed(failure)"
              [] OTHER -> "Malformed"

FourTerminals ==
    {"Rejected", "Skipped", "Completed(success)", "Completed(failure)"}

\* The transitions of the claim; the decorator decides and rejects in one
\* step, from Received.
ClaimedTransitions ==
    { <<"None", "Received">>,
      <<"Received", "AuthChecked">>,
      <<"Received", "Rejected">>,
      <<"AuthChecked", "Rejected">>,
      <<"AuthChecked", "Skipped">>,
      <<"AuthChecked", "Dispatching">>,
      <<"Dispatching", "Completed(success)">>,
      <<"Dispatching", "Completed(failure)">> }

\* The transitions of the handler that the claim lacks: the 400 answer, and
\* the 500 answer to an exception raised while the payload is read.
HandlerTransitions ==
    { <<"AuthChecked", "Malformed">>,
      <<"AuthChecked", "Completed(failure)">> }

\* Every delivery stays in its state or takes a transition of T, and what
\* a delivery was answered is kept.
StepsWithin(T) ==
    \A d \in DeliveryIds :
        /\ \/ DeliveryState(d)' = DeliveryState(d)
           \/ <<DeliveryState(d), DeliveryState(d)'>> \in T
        /\ Done(d) => pc'[d] = "done" /\ response'[d] = response[d]

\* C21 as stated: every delivery eventually reaches one of the terminal
\* states Rejected, Skipped, Completed(success), Completed(failure), by the
\* transitions Received -> AuthChecked -> Rejected | Skipped | Dispatching
\* -> Completed only, and never leaves it.
C21_Original ==
    /\ \A d \in DeliveryIds :
          Arrived(d) ~> (DeliveryState(d) \in FourTerminals)
    /\ [][StepsWithin(ClaimedTransitions)]_vars

\* C21 amended: provided every agent-runtime call returns or fails, every
\* delivery eventually reaches one terminal state among Rejected, Malformed
\* (the 400 answer to an absent, unparseable or empty body), Skipped,
\* Completed(success), Completed(failure), by the transitions Received ->
\* AuthChecked -> Rejected | Malformed | Skipped | Completed(failure) (an
\* exception while the payload is read) | Dispatching -> Completed only,
\* and never leaves it.
C21_Terminates ==
    /\ \A d \in DeliveryIds :
          Arrived(d) ~> (DeliveryState(d) \in FourTerminals \cup {"Malformed"})
    /\ [][StepsWithin(ClaimedTransitions \cup HandlerTransitions)]_vars

\* One delivery completed with success while another, arrived with it, was
\* answered as malformed input.
C21_Witness ==
    \E d, e \in DeliveryIds :
        /\ DeliveryState(d) = "Completed(success)"
        /\ stream[d] # <<>>
        /\ DeliveryState(e) = "Malformed"

\* ------------------------------------------------ claims on the functions

VerifyReturned == verify_call.state = "returned"
FormatReturned == format_call.state = "returned"

\* C13: the verifier fails closed: for any payload it returns false
\* whenever the signature or the secret is empty or absent, and an
\* exception raised while the digests are computed and compared (a
\* signature that is not ASCII) gives false, not an exception.
C13_FailsClosed ==
    VerifyReturned =>
        /\ verify_call.signature \in {NoneVal, ""} => verify_call.out = FALSE
        /\ verify_call.secret \in {NoneVal, ""} => verify_call.out = FALSE
        /\ verify_call.signature = NonAsciiSignature => verify_call.out = FALSE

\* The digest of the payload under the empty secret was refused under the
\* empty secret.
C13_Witness ==
    /\ VerifyReturned
    /\ verify_call.secret = ""
    /\ verify_call.signature = hmac_hex("", verify_call.payload)
    /\ verify_call.out = FALSE

\* C14 as stated: for all payloads P and all secrets S the verifier accepts
\* hmac_hex(P, S) under S, and refuses every other signature or payload.
C14_Original ==
    (VerifyReturned /\ verify_call.secret # NoneVal) =>
        verify_call.out =
            (verify_call.signature =
                hmac_hex(verify_call.secret, verify_call.payload))

\* C14 amended: for all payloads P and all non-empty secrets S the verifier
\* accepts hmac_hex(P, S) under S; under every secret it refuses every
\* signature that is not the digest of the payload under the secret (a
\* changed payload, a changed signature).
C14_SignedPair ==
    VerifyReturned =>
        /\ (verify_call.secret \notin {NoneVal, ""}
              /\ verify_call.signature =
                    hmac_hex(verify_call.secret, verify_call.payload))
               => verify_call.out = TRUE
        /\ verify_call.signature #
                hmac_hex(verify_call.secret, verify_call.payload)
               => verify_call.out = FALSE

\* The digest of a payload under a key was accepted for that payload under
\* that key.
C14_Witness ==
    /\ VerifyReturned
    /\ verify_call.secret = "key"
    /\ verify_call.payload = BodyIssue
    /\ verify_call.signature = hmac_hex("key", BodyIssue)
    /\ verify_call.out = TRUE

\* The headers of the three templates, the generic template and the
\* rendering the formatter falls back to.
KnownKinds == {"Issue", "Comment", "Project"}
TemplateHeader(kind) ==
    CASE kind = "Issue" -> "Linear Issue Updated\n"
      [] kind = "Comment" -> "New Comment on Linear Issue\n"
      [] kind = "Project" -> "Linear Project Updated\n"
GenericRendering(kind, event_data) ==
    "New " \o kind \o " event (ID: "
        \o (IF event_data.id = Missing THEN "unknown" ELSE event_data.id)
        \o ")\n\nEvent data: " \o event_data.repr
FallbackRendering(kind, event_data) ==
    "Linear " \o kind \o " event received with data: " \o event_data.repr

\* A nested object the template of the kind reads is null.
NullNested(kind, event_data) ==
    \/ kind = "Issue"
         /\ Null \in {event_data.state, event_data.assignee, event_data.team}
    \/ kind = "Comment" /\ Null \in {event_data.user, event_data.issue}
    \/ kind = "Project" /\ event_data.lead = Null

\* C15: the formatter is total: for every event kind and every event data
\* (fields missing, nested objects null, data that is no mapping) it
\* returns a rendering and raises nothing; when the extraction fails it
\* returns the rendering of the kind and the raw data it falls back to.
C15_Total ==
    FormatReturned =>
        LET kind == format_call.event_type
            event_data == format_call.data
            out == format_call.out
        IN /\ \/ \E k \in KnownKinds : StartsWith(out, TemplateHeader(k))
              \/ out = GenericRendering(kind, event_data)
              \/ out = FallbackRendering(kind, event_data)
           /\ (event_data.shape # "mapping" \/ NullNested(kind, event_data))
                => out = FallbackRendering(kind, event_data)

\* An Issue event whose assignee is null was rendered by the fallback.
C15_Witness ==
    /\ FormatReturned
    /\ format_call.event_type = "Issue"
    /\ format_call.data = DataNullAssignee
    /\ format_call.out = "Linear Issue event received with data: {'assignee': None}"

\* C16: for an Issue event the Issue template is used, with "Untitled" for
\* a missing title and "Unassigned" for a missing assignee name, whether
\* the nested object is absent from the data or present with a null value.
C16_IssueDefaults ==
    (FormatReturned /\ format_call.event_type = "Issue"
        /\ format_call.data.shape = "mapping") =>
        LET event_data == format_call.data
            out == format_call.out
        IN /\ StartsWith(out, TemplateHeader("Issue"))
           /\ event_data.title = Missing => Contains(out, " - Untitled\n")
           /\ (event_data.assignee \in {Missing, Null}
                 \/ event_data.assignee_name = Missing)
                => Contains(out, "**Assignee:** Unassigned\n")

\* C17: an event whose kind is none of Issue, Comment, Project (its data a
\* mapping) is formatted with the generic template: the kind, the id field
\* of the data ("unknown" when absent) and the raw data; each of the three
\* known kinds uses its own template, not the generic one, when the
\* extraction succeeds.
C17_GenericTemplate ==
    (FormatReturned /\ format_call.data.shape = "mapping") =>
        LET kind == format_call.event_type
            event_data == format_call.data
            out == format_call.out
        IN /\ kind \notin KnownKinds => out = GenericRendering(kind, event_data)
           /\ (kind \in KnownKinds /\ ~NullNested(kind, event_data)) =>
                 /\ StartsWith(out, TemplateHeader(kind))
                 /\ out # GenericRendering(kind, event_data)
                 /\ ~Contains(out, "Event data: ")

\* An event of another kind, its data without an id, got the generic
\* template with the id "unknown".
C17_Witness ==
    /\ FormatReturned
    /\ format_call.event_type = "Cycle"
    /\ format_call.data = DataEmpty
    /\ format_call.out = "New Cycle event (ID: unknown)\n\nEvent data: {}"

====
